---- MODULE Spec2Model ----
(***************************************************************************)
(* A model of the task-management backend: the task store and the tool    *)
(* functions of src/mcp/tools.py, the HTTP task creation of               *)
(* src/api/v1/endpoints/tasks.py, and the chat turn and conversation      *)
(* endpoints of src/api/v1/endpoints/agent.py.                            *)
(*                                                                         *)
(* Python values are represented as follows.  Every str is a TLA+ string; *)
(* None is the string NONE.  A uuid.UUID value is represented by its      *)
(* canonical text, so str(u) is u itself and uuid.UUID(s) is Canon(s),    *)
(* defined only on the well-formed texts.  A datetime produced by         *)
(* utcnow() is the value of the clock `now`; a datetime parsed from a     *)
(* due_date string is a string naming the date.                           *)
(***************************************************************************)
EXTENDS Integers, Sequences, FiniteSets, TLC

\* ---------------------------------------------------------------- bounds
MaxTasks == 2      \* tasks ever created (ids are never reused)
MaxTime  == 1      \* the clock runs from 0 to MaxTime
MaxOps   == 3      \* store operations in one behaviour of SpecTools
MaxConvs == 2      \* conversations ever created
MaxCalls == 2      \* tool calls in one model response

\* ---------------------------------------------------------------- values
NONE == "<None>"

\* Python truthiness of an Optional[str]: None and "" are falsy.
Truthy(s) == s # NONE /\ s # ""

\* uuid4() values, in the order they are drawn.
TaskIdText == <<"t1", "t2", "t3", "t4">>
ConvIdText == <<"c1", "c2", "c3", "c4">>

Users == {"u1", "u2"}

\* Texts uuid.UUID() accepts: canonical texts, and "U1" and "C1",
\* non-canonical spellings (upper case) of the ids u1 and c1.
WellFormed(s) ==
    s \in Users \cup {"U1", "C1", "t9", "c9"}
        \cup {TaskIdText[i] : i \in 1..Len(TaskIdText)}
        \cup {ConvIdText[i] : i \in 1..Len(ConvIdText)}

\* uuid.UUID(s) for a well-formed s; str() of the result is the result.
Canon(s) == IF s = "U1" THEN "u1" ELSE IF s = "C1" THEN "c1" ELSE s

Titles == {"a", "b"}
Statuses == {"pending", "completed", "archived"}
Priorities == {"low", "medium", "high"}

\* dt.datetime.strptime(s, "%Y-%m-%d"): the months and days need no zero
\* padding; anything else raises ValueError.
DateParses(s) == s \in {"2025-03-10", "2025-3-10", "2025-12-01", "2025-12-1"}
Strptime(s) ==
    IF s \in {"2025-03-10", "2025-3-10"}
    THEN "datetime(2025, 3, 10, 0, 0)" ELSE "datetime(2025, 12, 1, 0, 0)"

\* d.isoformat() and str(d.date()) of a datetime d.
Isoformat(d) ==
    IF d = "datetime(2025, 3, 10, 0, 0)"
    THEN "2025-03-10T00:00:00" ELSE "2025-12-01T00:00:00"
DateText(d) == SubSeq(Isoformat(d), 1, 10)

\* The try/except around strptime that clears the date when parsing fails.
ParsedOrMut(due_date, old) ==
    IF Truthy(due_date) /\ DateParses(due_date) THEN Strptime(due_date) ELSE NONE

\* if due_date: try: ... = strptime(due_date, "%Y-%m-%d"); except: pass --
\* the parsed date, or old when there is no date or it does not parse.
ParsedOr(due_date, old) ==
    IF Truthy(due_date) /\ DateParses(due_date) THEN Strptime(due_date) ELSE old

VARIABLES
    tasks,        \* the tasks table: id -> row
    nextTaskId,   \* index of the next uuid4() drawn for a task
    now,          \* the clock read by utcnow()
    opCount,      \* operations performed so far (SpecTools)
    pre,          \* the tasks table before the last tool call
    call,         \* the last tool call: its name and keyword arguments
    result,       \* what the last tool call returned (or that it raised)
    convs,        \* the conversations table: id -> row
    nextConvId,   \* index of the next uuid4() drawn for a conversation
    msgs,         \* the chat_messages table, in insertion order
    persisted,    \* every ChatMessage row ever committed, in order
    fkEnforced,   \* whether the storage engine enforces foreign keys
    turn          \* the chat requests in progress: request id -> frame

storeVars == <<tasks, nextTaskId>>
ghostVars == <<pre, call, result>>
chatVars  == <<convs, nextConvId, msgs, persisted, fkEnforced, turn>>
vars == <<tasks, nextTaskId, now, opCount, pre, call, result,
          convs, nextConvId, msgs, persisted, fkEnforced, turn>>

\* ---------------------------------------------------------------- tasks
\* A row of the tasks table.
Task(user_id, title, description, status, priority, due_date, tags, t) ==
    [user_id |-> user_id, title |-> title, description |-> description,
     status |-> status, priority |-> priority, due_date |-> due_date,
     tags |-> tags, created_at |-> t, updated_at |-> t]

\* session.add(row); session.commit() of a new row under a fresh id.
Insert(T, id, row) == [i \in DOMAIN T \cup {id} |-> IF i = id THEN row ELSE T[i]]

\* session.delete(row) for every id in ids; session.commit().
Delete(T, ids) == [i \in DOMAIN T \ ids |-> T[i]]

\* select(Task).where(Task.user_id == user_id): the text is bound through
\* the UUID column type, which parses it.
OwnedBy(T, user_id) == {i \in DOMAIN T : T[i].user_id = Canon(user_id)}

\* Ordered without its order_by: the rows in any order.
OrderedMut(T, S, asc) ==
    {s \in [1..Cardinality(S) -> S] :
        \A i, j \in 1..Cardinality(S) : i # j => s[i] # s[j]}

\* The sequences that list the ids of S once each, ordered by key (ascending
\* when asc, else descending); rows with equal keys come in any order.
Ordered(T, S, asc) ==
    {s \in [1..Cardinality(S) -> S] :
        /\ \A i, j \in 1..Cardinality(S) : i # j => s[i] # s[j]
        /\ \A i, j \in 1..Cardinality(S) :
              i < j => IF asc THEN T[s[i]].created_at <= T[s[j]].created_at
                              ELSE T[s[i]].created_at >= T[s[j]].created_at}

\* What a tool call does: the table it leaves, and the dict it returns
\* (raised: the exception it raises instead).
Returns(T, n, r) == [tasks |-> T, next |-> n, raised |-> FALSE, result |-> r]
Raises(T, n, e)  == [tasks |-> T, next |-> n, raised |-> TRUE,
                     result |-> [status |-> "raised", message |-> [tag |-> e]]]

Default(v, d) == IF v = NONE THEN d ELSE v

add_task(user_id, title, description, priority, due_date, tags) ==
    IF ~Truthy(user_id)
    THEN {Raises(tasks, nextTaskId, "ValueError")}
    ELSE LET parsed_date == ParsedOr(due_date, NONE)
             id == TaskIdText[nextTaskId]
             row == Task(Canon(user_id), title, description, "pending",
                         Default(priority, "medium"), parsed_date, tags, now)
         IN {Returns(Insert(tasks, id, row), nextTaskId + 1,
                     [status |-> "success",
                      message |-> [tag |-> "added", title |-> title],
                      task |-> [id |-> id, title |-> title]])}

Summary(T, i) ==
    [id |-> i, title |-> T[i].title, priority |-> T[i].priority,
     status |-> T[i].status,
     due_date |-> IF Truthy(T[i].due_date) THEN Isoformat(T[i].due_date) ELSE NONE,
     created_at |-> T[i].created_at]

list_tasks(user_id, status) ==
    IF ~Truthy(user_id)
    THEN {Raises(tasks, nextTaskId, "ValueError")}
    ELSE LET S == {i \in OwnedBy(tasks, user_id) :
                      (Truthy(status) /\ status # "all") => tasks[i].status = status}
         IN {Returns(tasks, nextTaskId,
                     [status |-> "success",
                      tasks |-> [k \in 1..Len(s) |-> Summary(tasks, s[k])]])
                : s \in Ordered(tasks, S, FALSE)}

\* One line of the numbered list of same-titled tasks.
DuplicateInfo(T, k, i) ==
    [i |-> k, priority |-> T[i].priority, created |-> T[i].created_at,
     due |-> IF Truthy(T[i].due_date) THEN DateText(T[i].due_date) ELSE NONE,
     id |-> i]

DeleteByTitleSingle(T, s) == Delete(T, {s[1]})

DeleteById(T, task_uuid) == Delete(T, {task_uuid})

\* NotOwners without the comparison of the owner.
NotOwnersMut(T, task_uuid, user_id) == task_uuid \notin DOMAIN T

\* The ownership test of the delete by id.
NotOwners(T, task_uuid, user_id) ==
    task_uuid \notin DOMAIN T \/ T[task_uuid].user_id # user_id

delete_task(user_id, task_title, task_id) ==
    IF ~Truthy(user_id)
    THEN {Raises(tasks, nextTaskId, "ValueError")}
    ELSE IF ~Truthy(task_title) /\ ~Truthy(task_id)
    THEN {Returns(tasks, nextTaskId,
                  [status |-> "error", message |-> [tag |-> "provide_title_or_id"]])}
    ELSE IF Truthy(task_id)
    THEN IF ~WellFormed(task_id)
         THEN {Returns(tasks, nextTaskId,
                       [status |-> "error", message |-> [tag |-> "invalid_id"]])}
         ELSE LET task_uuid == Canon(task_id) IN
              IF NotOwners(tasks, task_uuid, user_id)
              THEN {Returns(tasks, nextTaskId,
                            [status |-> "error",
                             message |-> [tag |-> "id_not_found", id |-> task_id]])}
              ELSE {Returns(DeleteById(tasks, task_uuid), nextTaskId,
                            [status |-> "success",
                             message |-> [tag |-> "deleted",
                                          title |-> tasks[task_uuid].title]])}
    ELSE LET S == {i \in OwnedBy(tasks, user_id) : tasks[i].title = task_title} IN
         IF S = {}
         THEN {Returns(tasks, nextTaskId,
                       [status |-> "error",
                        message |-> [tag |-> "title_not_found", title |-> task_title]])}
         ELSE IF Cardinality(S) = 1
         THEN {Returns(DeleteByTitleSingle(tasks, s), nextTaskId,
                       [status |-> "success",
                        message |-> [tag |-> "deleted", title |-> task_title]])
                  : s \in Ordered(tasks, S, TRUE)}
         ELSE {Returns(tasks, nextTaskId,
                       [status |-> "error",
                        message |-> [tag |-> "multiple", title |-> task_title,
                                     list |-> [k \in 1..Len(s) |->
                                                 DuplicateInfo(tasks, k, s[k])]],
                        requires_clarification |-> TRUE])
                  : s \in Ordered(tasks, S, TRUE)}

\* Ambiguous with the duplicate check dropped: the first match is updated.
AmbiguousMut(S) == FALSE

\* The duplicate check of update_task_by_title.
Ambiguous(S) == Cardinality(S) > 1

\* The assignments of update_task_by_title to the row it found.
Patched(row, new_title, description, priority, status, due_date, tags, t) ==
    [row EXCEPT
        !.title = IF Truthy(new_title) THEN new_title ELSE @,
        !.description = IF Truthy(description) THEN description ELSE @,
        !.priority = IF Truthy(priority) THEN priority ELSE @,
        !.status = IF Truthy(status) THEN status ELSE @,
        !.tags = IF Truthy(tags) THEN tags ELSE @,
        !.due_date = ParsedOr(due_date, @),
        !.updated_at = t]

update_task_by_title(user_id, current_title, new_title, description, priority, status, due_date, tags) ==
    IF ~Truthy(user_id) \/ ~Truthy(current_title)
    THEN {Returns(tasks, nextTaskId,
                  [status |-> "error", message |-> [tag |-> "missing_fields"]])}
    ELSE LET S == {i \in OwnedBy(tasks, user_id) : tasks[i].title = current_title} IN
         IF S = {}
         THEN {Returns(tasks, nextTaskId,
                       [status |-> "error", message |-> [tag |-> "not_found"]])}
         ELSE IF Ambiguous(S)
         THEN {Returns(tasks, nextTaskId,
                       [status |-> "error",
                        message |-> [tag |-> "found_n", n |-> Cardinality(S),
                                     title |-> current_title]])}
         ELSE {LET row == Patched(tasks[i], new_title, description, priority,
                                  status, due_date, tags, now)
               IN Returns([tasks EXCEPT ![i] = row], nextTaskId,
                          [status |-> "success",
                           message |-> [tag |-> "updated", title |-> current_title],
                           task |-> [title |-> row.title]])
                  : i \in S}

\* int(x) of a non-negative quotient num/den: truncation.
IntOf(num, den) == num \div den

\* round(x) of a non-negative quotient num/den: to the nearest integer, a
\* tie to the even one.
RoundOf(num, den) ==
    LET q == num \div den
        r == num % den
    IN IF 2 * r > den THEN q + 1
       ELSE IF 2 * r < den THEN q
       ELSE IF q % 2 = 0 THEN q ELSE q + 1

get_analytics(user_id) ==
    LET S == OwnedBy(tasks, user_id)
        total == Cardinality(S)
        completed == Cardinality({i \in S : tasks[i].status = "completed"})
        pending == Cardinality({i \in S : tasks[i].status = "pending"})
        score == IF total > 0 THEN IntOf(completed * 100, total) ELSE 0
    IN {Returns(tasks, nextTaskId,
                [status |-> "success",
                 analytics |-> [tasks_total |-> total, tasks_completed |-> completed,
                                tasks_pending |-> pending,
                                productivity_score |-> score]])}

delete_all_tasks(user_id) ==
    LET S == OwnedBy(tasks, user_id)
    IN {Returns(Delete(tasks, S), nextTaskId,
                [status |-> "success",
                 message |-> [tag |-> "deleted_n", n |-> Cardinality(S)]])}

\* SetStatusAll skipping the archived tasks.
SetStatusAllMut(T, S, status) ==
    [i \in DOMAIN T |-> IF i \in S /\ T[i].status # "archived"
                        THEN [T[i] EXCEPT !.status = status] ELSE T[i]]

\* The loop of the two bulk status changes: t.status = status; session.add(t).
SetStatusAll(T, S, status) ==
    [i \in DOMAIN T |-> IF i \in S THEN [T[i] EXCEPT !.status = status] ELSE T[i]]

complete_all_tasks(user_id) ==
    {Returns(SetStatusAll(tasks, OwnedBy(tasks, user_id), "completed"), nextTaskId,
             [status |-> "success", message |-> [tag |-> "all_completed"]])}

mark_all_tasks_incomplete(user_id) ==
    {Returns(SetStatusAll(tasks, OwnedBy(tasks, user_id), "pending"), nextTaskId,
             [status |-> "success", message |-> [tag |-> "all_pending"]])}

\* ------------------------------------------------------- calling a tool
\* The keyword parameters of each tool function, and those with no default.
ToolNames == {"add_task", "update_task", "list_tasks", "delete_task",
              "delete_all_tasks", "complete_all_tasks",
              "mark_all_tasks_incomplete", "get_analytics"}

Params(fname) ==
    CASE fname = "add_task" ->
            {"user_id", "title", "description", "priority", "due_date", "tags"}
      [] fname = "update_task" ->
            {"user_id", "current_title", "new_title", "description", "priority",
             "status", "due_date", "tags"}
      [] fname = "list_tasks" -> {"user_id", "status"}
      [] fname = "delete_task" -> {"user_id", "task_title", "task_id"}
      [] OTHER -> {"user_id"}

Required(fname) ==
    CASE fname = "add_task" -> {"user_id", "title"}
      [] fname = "update_task" -> {"user_id", "current_title"}
      [] OTHER -> {"user_id"}

\* The value bound to parameter k: the argument, or the default None.
Arg(args, k) == IF k \in DOMAIN args THEN args[k] ELSE NONE

\* fname(**args): Python raises TypeError for an unexpected or a missing
\* keyword argument before the function body runs.
Apply(fname, args) ==
    IF ~(DOMAIN args \subseteq Params(fname) /\ Required(fname) \subseteq DOMAIN args)
    THEN {Raises(tasks, nextTaskId, "TypeError")}
    ELSE CASE fname = "add_task" ->
                add_task(args.user_id, args.title, Arg(args, "description"),
                         Arg(args, "priority"), Arg(args, "due_date"),
                         Arg(args, "tags"))
           [] fname = "update_task" ->
                update_task_by_title(args.user_id, args.current_title,
                                     Arg(args, "new_title"), Arg(args, "description"),
                                     Arg(args, "priority"), Arg(args, "status"),
                                     Arg(args, "due_date"), Arg(args, "tags"))
           [] fname = "list_tasks" -> list_tasks(args.user_id, Arg(args, "status"))
           [] fname = "delete_task" ->
                delete_task(args.user_id, Arg(args, "task_title"), Arg(args, "task_id"))
           [] fname = "delete_all_tasks" -> delete_all_tasks(args.user_id)
           [] fname = "complete_all_tasks" -> complete_all_tasks(args.user_id)
           [] fname = "mark_all_tasks_incomplete" ->
                mark_all_tasks_incomplete(args.user_id)
           [] fname = "get_analytics" -> get_analytics(args.user_id)

\* A dict with the keys of D, and d with key k set to v.
With(d, k, v) == [x \in DOMAIN d \cup {k} |-> IF x = k THEN v ELSE d[x]]
Empty == [x \in {} |-> NONE]

\* ------------------------------------------------- the inputs of the tools
TaskIdArgs == {TaskIdText[i] : i \in 1..MaxTasks} \cup {"t9", "zz"}

AddArgs ==
    {[title |-> "a"], [title |-> "b"],
     [title |-> "a", priority |-> "high", description |-> "d", tags |-> "x",
      due_date |-> "2025-03-10"],
     [title |-> "b", due_date |-> "10 March"]}

DeleteArgs ==
    {Empty, [task_title |-> "a"], [task_title |-> "b"], [task_title |-> "b", task_id |-> "t1"]}
    \cup {[task_id |-> i] : i \in TaskIdArgs}

Patches ==
    {Empty, [new_title |-> "b"], [status |-> "completed"],
     [priority |-> "low", description |-> "e", tags |-> "y"],
     [due_date |-> "2025-12-1"], [due_date |-> "soon", status |-> "archived"]}

UpdateArgs ==
    {With(p, "current_title", "a") : p \in Patches}
    \cup {[current_title |-> "b", new_title |-> "a"], [current_title |-> ""]}

ListArgs == {Empty, [status |-> "all"], [status |-> "pending"]}

BulkNames == {"delete_all_tasks", "complete_all_tasks", "mark_all_tasks_incomplete"}

ToolInputs ==
    {<<"add_task", a>> : a \in AddArgs}
    \cup {<<"delete_task", a>> : a \in DeleteArgs}
    \cup {<<"update_task", a>> : a \in UpdateArgs}
    \cup {<<n, Empty>> : n \in BulkNames \cup {"get_analytics"}}

\* The calls: every input for the two users in canonical spelling; a few for
\* the upper-case spelling of u1's id; one with the owner missing.
ToolCalls ==
    {<<in[1], With(in[2], "user_id", u)>> : in \in ToolInputs, u \in Users}
    \cup {<<"list_tasks", With(a, "user_id", "u1")>> : a \in ListArgs}
    \cup {<<"add_task", [title |-> "a", user_id |-> "U1"]>>,
          <<"delete_task", [task_id |-> "t1", user_id |-> "U1"]>>,
          <<"delete_task", [task_title |-> "a", user_id |-> "U1"]>>,
          <<"complete_all_tasks", [user_id |-> "U1"]>>,
          <<"add_task", [title |-> "a", user_id |-> ""]>>}

\* ---------------------------------------------------------- SpecTools
NoCall == [name |-> "none", args |-> Empty, at |-> 0, by |-> "none"]
NoResult == [status |-> "none"]

InitStore ==
    /\ tasks = [i \in {} |-> NONE]
    /\ nextTaskId = 1
    /\ now = 0
    /\ opCount = 0
    /\ pre = [i \in {} |-> NONE]
    /\ call = NoCall
    /\ result = NoResult

\* The chat requests, named in the order they arrive.
Turns == {"r1", "r2"}

NoRequest == [message |-> "", user_id |-> "", conversation_id |-> NONE]
NoResponse == [status |-> 0]

\* The frame of a request that has not arrived.
Idle ==
    [pc |-> "idle", request |-> NoRequest, conv_id |-> NONE, created |-> FALSE,
     messages |-> <<>>, todo |-> <<>>, tool_calls_executed |-> FALSE,
     final_resp |-> NONE, failure |-> "none", invocations |-> <<>>,
     response |-> NoResponse]

InitChat ==
    /\ convs = [i \in {} |-> NONE]
    /\ nextConvId = 1
    /\ msgs = <<>>
    /\ persisted = <<>>
    /\ fkEnforced \in BOOLEAN
    /\ turn = [t \in Turns |-> Idle]

\* Time passes between two operations.
Tick ==
    /\ now < MaxTime
    /\ now' = now + 1
    /\ UNCHANGED <<tasks, nextTaskId, opCount, pre, call, result>>

\* One call of a tool function with the arguments args, made by `by`.
Invoke(fname, args, by) ==
    /\ fname = "add_task" => nextTaskId <= MaxTasks
    /\ \E o \in Apply(fname, args) :
          /\ tasks' = o.tasks
          /\ nextTaskId' = o.next
          /\ result' = o.result
    /\ pre' = tasks
    /\ call' = [name |-> fname, args |-> args, at |-> now, by |-> by]
    /\ UNCHANGED now

ToolCall ==
    /\ opCount < MaxOps
    /\ opCount' = opCount + 1
    /\ \E c \in ToolCalls : Invoke(c[1], c[2], "direct")

\* POST /tasks by the authenticated user.
create_task ==
    /\ nextTaskId <= MaxTasks
    /\ opCount < MaxOps
    /\ opCount' = opCount + 1
    /\ \E current_user \in Users, title \in {"a"}, status \in {"completed", "archived"} :
          tasks' = Insert(tasks, TaskIdText[nextTaskId],
                          Task(current_user, title, NONE, status, "medium",
                               NONE, NONE, now))
    /\ nextTaskId' = nextTaskId + 1
    /\ pre' = tasks
    /\ call' = [name |-> "POST /tasks", args |-> Empty, at |-> now, by |-> "http"]
    /\ result' = [status |-> "201"]
    /\ UNCHANGED now

NextTools ==
    \/ Tick /\ UNCHANGED chatVars
    \/ ToolCall /\ UNCHANGED chatVars
    \/ create_task /\ UNCHANGED chatVars

\* The tools run against a store that does not enforce foreign keys.
InitTools == InitStore /\ InitChat /\ fkEnforced = FALSE

SpecTools == InitTools /\ [][NextTools]_vars

\* ------------------------------------------------------- SpecAnalytics
\* ------------------------------------------- the HTTP task endpoints
\* The fields of the TaskUpdate schema.
TaskUpdateFields == {"title", "description", "status", "priority", "due_date", "tags"}

\* TaskUpdate that keeps the keys it does not declare.
TaskUpdateMut(body) == body

\* The TaskUpdate parsed from a JSON body, as task_update.dict(exclude_unset
\* =True) gives it back: the declared fields the body sets; other keys are
\* ignored.
TaskUpdate(body) == [k \in DOMAIN body \cap TaskUpdateFields |-> body[k]]

\* The ownership test of the endpoints without the comparison.
NotAuthorizedMut(task, current_user) == FALSE

\* task.user_id != current_user.id
NotAuthorized(task, current_user) == task.user_id # current_user

\* for key, value in task_data.items(): setattr(task, key, value), and
\* task.updated_at = datetime.utcnow().
SetAttrs(task, task_data, t) ==
    [[f \in DOMAIN task |-> IF f \in DOMAIN task_data THEN task_data[f] ELSE task[f]]
        EXCEPT !.updated_at = t]

\* The commit of a row the NOT NULL constraints of the table refuse.
IntegrityError(task) == task.title = NONE \/ task.status = NONE

\* What an endpoint answers for the task id of the path: 422 for a text that
\* is no UUID, 404 for no such task, 403 for another user's task.
Lookup(task_id, current_user) ==
    IF ~WellFormed(task_id) THEN 422
    ELSE IF Canon(task_id) \notin DOMAIN tasks THEN 404
    ELSE IF NotAuthorized(tasks[Canon(task_id)], current_user) THEN 403
    ELSE 200

HttpCall(name, task_id, body, current_user) ==
    [name |-> name, at |-> now, by |-> "http",
     args |-> [task_id |-> task_id, body |-> body, current_user |-> current_user]]

\* GET /tasks/{task_id}
get_task(task_id, current_user) ==
    /\ pre' = tasks
    /\ call' = HttpCall("GET /tasks/{task_id}", task_id, Empty, current_user)
    /\ result' = IF Lookup(task_id, current_user) = 200
                 THEN [status |-> 200, task |-> tasks[Canon(task_id)]]
                 ELSE [status |-> Lookup(task_id, current_user)]
    /\ UNCHANGED <<tasks, nextTaskId, now>>

\* PUT /tasks/{task_id}
update_task(task_id, body, current_user) ==
    /\ pre' = tasks
    /\ call' = HttpCall("PUT /tasks/{task_id}", task_id, body, current_user)
    /\ IF Lookup(task_id, current_user) # 200
       THEN /\ result' = [status |-> Lookup(task_id, current_user)]
            /\ UNCHANGED tasks
       ELSE LET task == SetAttrs(tasks[Canon(task_id)], TaskUpdate(body), now)
            IN IF IntegrityError(task)
               THEN /\ result' = [status |-> 500]
                    /\ UNCHANGED tasks
               ELSE /\ tasks' = [tasks EXCEPT ![Canon(task_id)] = task]
                    /\ result' = [status |-> 200, task |-> task]
    /\ UNCHANGED <<nextTaskId, now>>

\* DELETE /tasks/{task_id}
delete_task_endpoint(task_id, current_user) ==
    /\ pre' = tasks
    /\ call' = HttpCall("DELETE /tasks/{task_id}", task_id, Empty, current_user)
    /\ IF Lookup(task_id, current_user) # 200
       THEN /\ result' = [status |-> Lookup(task_id, current_user)]
            /\ UNCHANGED tasks
       ELSE /\ tasks' = Delete(tasks, {Canon(task_id)})
            /\ result' = [status |-> 200]
    /\ UNCHANGED <<nextTaskId, now>>

\* The JSON bodies of PUT: a status, a title, a title with a user_id the
\* schema does not declare, nothing, and a null title.
UpdateBodies ==
    {[status |-> "completed"], [title |-> "b"],
     [title |-> "b", user_id |-> "u2"], Empty, [title |-> NONE]}

\* The tool calls made next to the HTTP requests.
HttpToolCalls ==
    {<<"add_task", [title |-> "a", user_id |-> u]>> : u \in Users}
    \cup {<<"update_task", [current_title |-> "a", new_title |-> "b", user_id |-> "u1"]>>,
          <<"complete_all_tasks", [user_id |-> "u1"]>>,
          <<"mark_all_tasks_incomplete", [user_id |-> "u2"]>>,
          <<"delete_all_tasks", [user_id |-> "u2"]>>}

HttpRequest ==
    /\ opCount < MaxOps
    /\ opCount' = opCount + 1
    /\ \E task_id \in TaskIdArgs, current_user \in Users :
          \/ get_task(task_id, current_user)
          \/ \E body \in UpdateBodies : update_task(task_id, body, current_user)
          \/ delete_task_endpoint(task_id, current_user)

HttpToolCall ==
    /\ opCount < MaxOps
    /\ opCount' = opCount + 1
    /\ \E c \in HttpToolCalls : Invoke(c[1], c[2], "direct")

NextHttp ==
    \/ Tick /\ UNCHANGED chatVars
    \/ create_task /\ UNCHANGED chatVars
    \/ HttpRequest /\ UNCHANGED chatVars
    \/ HttpToolCall /\ UNCHANGED chatVars

SpecHttp == InitTools /\ [][NextHttp]_vars

\* get_analytics reads the table and nothing else: it is applied to every
\* table of up to MaxRows tasks that POST /tasks can have built at time 0.
MaxRows == 3

Rows == {Task(u, "a", NONE, st, "medium", NONE, NONE, 0) : u \in Users, st \in Statuses}

InitAnalytics ==
    /\ \E n \in 0..MaxRows : tasks \in [{TaskIdText[i] : i \in 1..n} -> Rows]
    /\ nextTaskId = Cardinality(DOMAIN tasks) + 1
    /\ now = 0
    /\ opCount = 0
    /\ pre = [i \in {} |-> NONE]
    /\ call = NoCall
    /\ result = NoResult
    /\ InitChat
    /\ fkEnforced = FALSE

Analytics ==
    /\ \E u \in Users : Invoke("get_analytics", [user_id |-> u], "direct")
    /\ UNCHANGED opCount

NextAnalytics == Analytics /\ UNCHANGED chatVars

SpecAnalytics == InitAnalytics /\ [][NextAnalytics]_vars

\* ------------------------------------------------------------ the chat
TitleLimit == 30
HistoryLimit == 10

LongMessage == "remind me to call the dentist tomorrow"

\* POST /chat bodies.  The first request finds no conversation whatever id
\* it names; the second may name the conversation the first one created.
ChatRequests(t) ==
    IF t = "r1"
    THEN {[message |-> "hi", user_id |-> "u1", conversation_id |-> NONE],
          [message |-> LongMessage, user_id |-> "u1", conversation_id |-> "c9"],
          [message |-> "", user_id |-> "u1", conversation_id |-> "zz"],
          [message |-> "hi", user_id |-> "", conversation_id |-> NONE],
          [message |-> "hi", user_id |-> "zz", conversation_id |-> NONE]}
    ELSE {[message |-> "hi", user_id |-> "u2", conversation_id |-> NONE],
          [message |-> "hi", user_id |-> "u2", conversation_id |-> "c1"],
          [message |-> "hi", user_id |-> "u1", conversation_id |-> "C1"]}

\* A tool call of the model's response: arguments is JSON text, here the
\* object it encodes, or text json.loads rejects.
Object(d) == [json |-> "object", value |-> d]
Invalid == [json |-> "invalid", value |-> Empty]
ToolCallOf(id, name, arguments) == [id |-> id, name |-> name, arguments |-> arguments]

\* The tool_calls lists the model answers with.
EmittedLists ==
    {s \in {
        <<ToolCallOf("k1", "add_task", Object([title |-> "a", user_id |-> "u2"]))>>,
        <<ToolCallOf("k1", "delete_task", Object([task_id |-> "t1", user_id |-> "u1"])),
          ToolCallOf("k2", "list_tasks", Object([user_id |-> "u1"]))>>,
        <<ToolCallOf("k1", "add_task", Object([title |-> "b"])),
          ToolCallOf("k2", "add_task", Invalid)>>,
        <<ToolCallOf("k1", "drop_tasks", Object(Empty)),
          ToolCallOf("k2", "delete_all_tasks", Object([user_id |-> "u1"]))>>,
        <<ToolCallOf("k1", "update_task",
                     Object([current_title |-> "a", status |-> "completed",
                             user_id |-> "u1"])),
          ToolCallOf("k2", "get_analytics", Object([user_id |-> "u1"])),
          ToolCallOf("k3", "mark_all_tasks_incomplete", Object(Empty))>>} :
     Len(s) <= MaxCalls}

\* What client.chat.completions.create does: it raises, or returns a message
\* with text (possibly None) or with tool calls.
Completions(with_tools) ==
    {[kind |-> "raise", content |-> NONE, tool_calls |-> <<>>]}
    \cup {[kind |-> "message", content |-> c, tool_calls |-> <<>>] :
            c \in {"Sure.", NONE}}
    \cup IF with_tools
         THEN {[kind |-> "message", content |-> NONE, tool_calls |-> s] :
                 s \in EmittedLists}
         ELSE {}

\* x or d.
Or(x, d) == IF Truthy(x) THEN x ELSE d

ErrorReply(e) == "I encountered an error processing your request: " \o e

\* args['user_id'] = request.user_id without the assignment when the model
\* gave a user_id itself.
InjectMut(args, user_id) ==
    IF "user_id" \in DOMAIN args THEN args ELSE With(args, "user_id", user_id)

\* args['user_id'] = request.user_id
Inject(args, user_id) == With(args, "user_id", user_id)

\* The except branch that re-raises instead of answering.
ExceptMut(f, e, where) ==
    [f EXCEPT !.failure = where, !.pc = "failed", !.todo = <<>>,
              !.response = [status |-> 500]]

\* The except branch without tool_calls_executed = False.
ExceptKeepMut(f, e, where) ==
    [f EXCEPT !.final_resp = ErrorReply(e),
              !.failure = where, !.pc = "saveAssistant", !.todo = <<>>]

\* except Exception as e: the fallback reply.
Except(f, e, where) ==
    [f EXCEPT !.final_resp = ErrorReply(e), !.tool_calls_executed = FALSE,
              !.failure = where, !.pc = "saveAssistant", !.todo = <<>>]

\* A row of the conversations table.
Conversation(user_id, title, t) ==
    [user_id |-> user_id, title |-> title, created_at |-> t, updated_at |-> t]

\* A row of the chat_messages table; the created_at keyword the endpoint
\* passes is no field of the table, the timestamp is the default utcnow().
ChatMessage(conversation_id, role, content, t) ==
    [conversation_id |-> conversation_id, role |-> role, content |-> content,
     timestamp |-> t]

\* The record of a committed row: who wrote it, and who owned the
\* conversation then.
Committed(row, by) ==
    [by |-> by, conversation_id |-> row.conversation_id, role |-> row.role,
     content |-> row.content,
     owner |-> IF row.conversation_id \in DOMAIN convs
               THEN convs[row.conversation_id].user_id ELSE NONE]

\* The insert of a message violates the foreign key to conversations.
FKViolation(conv_id) == fkEnforced /\ conv_id \notin DOMAIN convs

TitleOf(message) ==
    Or(IF Len(message) > TitleLimit
       THEN SubSeq(message, 1, TitleLimit) \o "..." ELSE message, "New Chat")

\* Step B finding no conversation whatever the request names.
ResolvesMut(conversation_id) == FALSE

\* Step B: the request names a conversation, the text is a UUID and
\* session.get finds the row.
Resolves(conversation_id) ==
    /\ Truthy(conversation_id)
    /\ WellFormed(conversation_id)
    /\ Canon(conversation_id) \in DOMAIN convs

\* Steps A and B: validate user_id, then get or create the conversation.
ChatReceive(t) ==
    /\ turn[t].pc = "idle"
    /\ t = "r2" => turn["r1"].pc # "idle"
    /\ \E request \in ChatRequests(t) :
        IF ~Truthy(request.user_id) \/ ~WellFormed(request.user_id)
        THEN /\ turn' = [turn EXCEPT ![t] = [@ EXCEPT !.pc = "rejected",
                             !.request = request, !.response = [status |-> 400]]]
             /\ UNCHANGED <<convs, nextConvId>>
        ELSE LET user_uuid == Canon(request.user_id)
                 found == Resolves(request.conversation_id)
             IN IF found
                THEN /\ turn' = [turn EXCEPT ![t] = [@ EXCEPT !.pc = "saveUser",
                                     !.request = request,
                                     !.conv_id = Canon(request.conversation_id)]]
                     /\ UNCHANGED <<convs, nextConvId>>
                ELSE /\ nextConvId <= MaxConvs
                     /\ convs' = Insert(convs, ConvIdText[nextConvId],
                                        Conversation(user_uuid, TitleOf(request.message), now))
                     /\ nextConvId' = nextConvId + 1
                     /\ turn' = [turn EXCEPT ![t] = [@ EXCEPT !.pc = "saveUser",
                                     !.request = request, !.created = TRUE,
                                     !.conv_id = ConvIdText[nextConvId]]]
    /\ UNCHANGED now
    /\ UNCHANGED <<tasks, nextTaskId, opCount, pre, call, result,
                   msgs, persisted, fkEnforced>>

\* Step C left out: the turn goes on without the commit.
SaveUserMut(t) ==
    /\ turn[t].pc = "saveUser"
    /\ turn' = [turn EXCEPT ![t] = [@ EXCEPT !.pc = "context"]]
    /\ UNCHANGED <<tasks, nextTaskId, now, opCount, pre, call, result,
                   convs, nextConvId, msgs, persisted, fkEnforced>>

\* Step C: the user's message is committed.
SaveUser(t) ==
    LET f == turn[t]
        row == ChatMessage(f.conv_id, "user", f.request.message, now)
    IN /\ f.pc = "saveUser"
       /\ IF FKViolation(f.conv_id)
          THEN /\ turn' = [turn EXCEPT ![t] = [@ EXCEPT !.pc = "failed",
                               !.response = [status |-> 500]]]
               /\ UNCHANGED <<msgs, persisted>>
          ELSE /\ msgs' = Append(msgs, row)
               /\ persisted' = Append(persisted, Committed(row, t))
               /\ turn' = [turn EXCEPT ![t] = [@ EXCEPT !.pc = "context"]]
       /\ now' = now + 1
       /\ UNCHANGED <<tasks, nextTaskId, opCount, pre, call, result,
                      convs, nextConvId, fkEnforced>>

\* select ... where conversation_id == conv_id order by timestamp desc
\* limit 10, reversed: the rows in any order the timestamps allow.
\* history[::-1] left out.
ReverseMut(s) == s

\* history[::-1]
Reverse(s) == [k \in 1..Len(s) |-> s[Len(s) + 1 - k]]
Min(a, b) == IF a < b THEN a ELSE b

\* order_by(desc(ChatMessage.timestamp)): the rows I of msgs, each once, a
\* row never before one with a later timestamp.
RECURSIVE NewestFirst(_)
NewestFirst(I) ==
    IF I = {} THEN {<<>>}
    ELSE UNION {{<<k>> \o s : s \in NewestFirst(I \ {k})} :
                  k \in {k \in I : \A j \in I :
                                      msgs[k].timestamp >= msgs[j].timestamp}}

History(conv_id) ==
    LET I == {k \in 1..Len(msgs) : msgs[k].conversation_id = conv_id}
        n == Cardinality(I)
    IN {Reverse([k \in 1..Min(n, HistoryLimit) |-> msgs[s[k]]]) :
          s \in NewestFirst(I)}

\* The filter of the history that passes the replies only.
IsChatRoleMut(h) == h.role = "assistant"

\* if h.role in ["user", "assistant"]
IsChatRole(h) == h.role \in {"user", "assistant"}
Entry(h) == [role |-> h.role, content |-> h.content]

Context(history) ==
    <<[role |-> "system", content |-> "SYSTEM_PROMPT"]>>
    \o [k \in 1..Len(SelectSeq(history, IsChatRole)) |->
           Entry(SelectSeq(history, IsChatRole)[k])]

\* Steps D and E: build the context and call the model with the tools.
CallModel(t) ==
    LET f == turn[t] IN
    /\ f.pc = "context"
    /\ \E history \in History(f.conv_id), completion \in Completions(TRUE) :
        LET messages == Context(history)
            g == [f EXCEPT !.messages = messages,
                           !.invocations = Append(@, [tools |-> TRUE,
                                                      n |-> Len(messages),
                                                      content |-> completion.content])]
        IN turn' = [turn EXCEPT ![t] =
             IF completion.kind = "raise"
             THEN Except(g, "timeout", "first")
             ELSE IF completion.tool_calls # <<>>
             THEN [g EXCEPT !.messages = Append(@, [role |-> "assistant",
                                                    tool_calls |-> completion.tool_calls]),
                            !.tool_calls_executed = TRUE,
                            !.todo = completion.tool_calls,
                            !.final_resp = "",
                            !.pc = "tools"]
             ELSE [g EXCEPT !.final_resp = Or(completion.content, "Okay."),
                            !.pc = "saveAssistant"]]
    /\ UNCHANGED <<tasks, nextTaskId, now, opCount, pre, call, result,
                   convs, nextConvId, msgs, persisted, fkEnforced>>

ToolMessage(tool_call, r) ==
    [role |-> "tool", tool_call_id |-> tool_call.id, content |-> r]

\* else: result = {"status": "error", "message": f"Tool {fname} not found"}
ToolNotFound(fname) ==
    [status |-> "error", message |-> [tag |-> "tool_not_found", name |-> fname]]

\* The else branch raising instead of answering.
UnknownToolMut(f, tool_call) == Except(f, "KeyError", "dispatch")

\* The round of the loop for a name that is no tool: the error result goes
\* into the transcript and the loop goes on.
UnknownTool(f, tool_call) ==
    [f EXCEPT !.messages = Append(@, ToolMessage(tool_call, ToolNotFound(tool_call.name))),
              !.todo = Tail(@)]

\* The loop taking the tool calls from the end of the list.
NextToolCallMut(todo) == todo[Len(todo)]

\* for tool_call in ai_msg.tool_calls: the call the loop takes next.
NextToolCall(todo) == Head(todo)

\* Step F, one round of the loop over ai_msg.tool_calls.
Dispatch(t) ==
    LET f == turn[t]
        tool_call == NextToolCall(f.todo)
        fname == tool_call.name
        args == Inject(tool_call.arguments.value, f.request.user_id)
        said(r) == [f EXCEPT !.messages = Append(@, ToolMessage(tool_call, r)),
                             !.todo = Tail(@)]
    IN /\ f.pc = "tools"
       /\ f.todo # <<>>
       /\ IF tool_call.arguments.json # "object"
          THEN /\ turn' = [turn EXCEPT ![t] =
                             Except(f, IF tool_call.arguments.json = "invalid"
                                       THEN "JSONDecodeError" ELSE "TypeError",
                                    "dispatch")]
               /\ UNCHANGED <<tasks, nextTaskId, pre, call, result>>
          ELSE /\ pre' = tasks
               /\ call' = [name |-> fname, args |-> args, at |-> now, by |-> t,
                           emitted |-> tool_call.arguments.value]
               /\ IF fname \notin ToolNames
                  THEN /\ result' = ToolNotFound(fname)
                       /\ turn' = [turn EXCEPT ![t] = UnknownTool(f, tool_call)]
                       /\ UNCHANGED <<tasks, nextTaskId>>
                  ELSE /\ fname = "add_task" => nextTaskId <= MaxTasks
                       /\ \E o \in Apply(fname, args) :
                            /\ tasks' = o.tasks
                            /\ nextTaskId' = o.next
                            /\ result' = o.result
                            /\ turn' = [turn EXCEPT ![t] =
                                          IF o.raised
                                          THEN Except(f, o.result.message.tag, "dispatch")
                                          ELSE said(o.result)]
       /\ UNCHANGED <<now, opCount, convs, nextConvId, msgs, persisted, fkEnforced>>

\* The for loop left at any round.
LoopOverMut(f) == TRUE

\* The for loop has gone through ai_msg.tool_calls.
LoopOver(f) == f.todo = <<>>

\* The second call of the model, without the tools.
FinalCall(t) ==
    LET f == turn[t] IN
    /\ f.pc = "tools"
    /\ LoopOver(f)
    /\ \E completion \in Completions(FALSE) :
        LET g == [f EXCEPT !.invocations = Append(@, [tools |-> FALSE,
                                                      n |-> Len(f.messages),
                                                      content |-> completion.content])]
        IN turn' = [turn EXCEPT ![t] =
             IF completion.kind = "raise"
             THEN Except(g, "timeout", "second")
             ELSE [g EXCEPT !.final_resp = completion.content,
                            !.pc = "saveAssistant"]]
    /\ UNCHANGED <<tasks, nextTaskId, now, opCount, pre, call, result,
                   convs, nextConvId, msgs, persisted, fkEnforced>>

\* Steps G and H: the assistant's message is committed and the response
\* returned; the locals of the request are gone.
SaveAssistant(t) ==
    LET f == turn[t]
        row == ChatMessage(f.conv_id, "assistant", Or(f.final_resp, "Processed."), now)
    IN /\ f.pc = "saveAssistant"
       /\ IF FKViolation(f.conv_id)
          THEN /\ turn' = [turn EXCEPT ![t] = [@ EXCEPT !.pc = "failed",
                               !.messages = <<>>, !.response = [status |-> 500]]]
               /\ UNCHANGED <<msgs, persisted>>
          ELSE /\ msgs' = Append(msgs, row)
               /\ persisted' = Append(persisted, Committed(row, t))
               /\ turn' = [turn EXCEPT ![t] = [@ EXCEPT !.pc = "done",
                               !.messages = <<>>,
                               !.response =
                                  [status |-> 200,
                                   response |-> Or(f.final_resp, "Done."),
                                   conversation_id |-> f.conv_id,
                                   user_id |-> f.request.user_id,
                                   tool_calls_executed |-> f.tool_calls_executed]]]
       /\ now' = now + 1
       /\ UNCHANGED <<tasks, nextTaskId, opCount, pre, call, result,
                      convs, nextConvId, fkEnforced>>

\* str(conversation.user_id) != user_id
NotOwner(conversation, user_id) == conversation.user_id # user_id

\* What DELETE /conversations/{conversation_id}?user_id=... answers: 400 for
\* no user_id or a text that is no UUID, 404 for no such conversation or one
\* whose owner's text differs from user_id, else 200.
DeleteOutcome(conversation_id, user_id) ==
    IF ~Truthy(user_id) THEN 400
    ELSE IF ~WellFormed(user_id) \/ ~WellFormed(conversation_id) THEN 400
    ELSE IF Canon(conversation_id) \notin DOMAIN convs THEN 404
    ELSE IF NotOwner(convs[Canon(conversation_id)], user_id) THEN 404
    ELSE 200

\* for m in messages: session.delete(m)
WithoutMessagesMut(M, conv_uuid) == IF M = <<>> THEN M ELSE Tail(M)

\* for m in messages: session.delete(m), messages being the rows of the
\* conversation.
WithoutMessages(M, conv_uuid) ==
    SelectSeq(M, LAMBDA m : m.conversation_id # conv_uuid)

\* DELETE /conversations/{conversation_id}?user_id=... when it deletes; the
\* request that is refused changes nothing.
delete_conversation(conversation_id, user_id) ==
    /\ DeleteOutcome(conversation_id, user_id) = 200
    /\ msgs' = WithoutMessages(msgs, Canon(conversation_id))
    /\ convs' = Delete(convs, {Canon(conversation_id)})
    /\ UNCHANGED <<tasks, nextTaskId, now, opCount, pre, call, result,
                   nextConvId, persisted, fkEnforced, turn>>

\* In Spec the clock moves on with every message that is committed: no two
\* messages of a behaviour carry the same timestamp.
Next ==
    \/ \E t \in Turns : ChatReceive(t)
    \/ \E t \in Turns : SaveUser(t)
    \/ \E t \in Turns : CallModel(t)
    \/ \E t \in Turns : Dispatch(t)
    \/ \E t \in Turns : FinalCall(t)
    \/ \E t \in Turns : SaveAssistant(t)
    \/ \E u \in Users : delete_conversation("c1", u)

Init == InitStore /\ InitChat

Spec == Init /\ [][Next]_vars

\* ------------------------------------------- deleting conversations
\* DELETE /conversations/{conversation_id} reads and writes the two chat
\* tables only: it is applied, MaxOps times at most, to every store of up
\* to two conversations and up to MaxStored messages that chat turns can
\* have left.
MaxStored == 3

StoredConvs == [{"c1", "c2"} -> Users \cup {NONE}]

InitConv ==
    /\ InitStore
    /\ \E C \in StoredConvs :
          convs = [c \in {c \in DOMAIN C : C[c] # NONE} |->
                      Conversation(C[c], "New Chat", 0)]
    /\ \E n \in 0..MaxStored :
          \E M \in [1..n -> (DOMAIN convs) \X {"user", "assistant"}] :
             msgs = [k \in 1..n |-> ChatMessage(M[k][1], M[k][2], "hi", k)]
    /\ nextConvId = 3
    /\ persisted = <<>>
    /\ fkEnforced \in BOOLEAN
    /\ turn = [t \in Turns |-> Idle]

\* The whole handler: the answer, and the deletion when the answer is 200.
DeleteConversationRequest ==
    /\ opCount < MaxOps
    /\ opCount' = opCount + 1
    /\ \E conversation_id \in {"c1", "c2", "c9", "zz"}, user_id \in Users \cup {"U1", ""} :
          /\ call' = [name |-> "DELETE /conversations/{conversation_id}",
                      args |-> [conversation_id |-> conversation_id,
                                user_id |-> user_id],
                      at |-> now, by |-> "http"]
          /\ result' = [status |-> DeleteOutcome(conversation_id, user_id)]
          /\ IF DeleteOutcome(conversation_id, user_id) = 200
             THEN /\ msgs' = WithoutMessages(msgs, Canon(conversation_id))
                  /\ convs' = Delete(convs, {Canon(conversation_id)})
             ELSE UNCHANGED <<msgs, convs>>
    /\ UNCHANGED <<tasks, nextTaskId, now, pre, nextConvId, persisted,
                   fkEnforced, turn>>

NextConv == DeleteConversationRequest

SpecConv == InitConv /\ [][NextConv]_vars

\* ------------------------------------------------- long conversations
\* A turn in a conversation that earlier turns have filled: c1, owned by u1,
\* holds up to MaxHistory messages, user and assistant in turn, with
\* timestamps that grow, two neighbours at most sharing one; the clock reads
\* the last timestamp or a later time.  The earlier turns are over: r1
\* stands for the last of them, r2 is the turn that runs.
MaxHistory == 12

\* The timestamp of the k-th message when the messages tie and tie + 1 share
\* theirs (tie = 0: no two do).
Stamp(k, tie) == IF tie > 0 /\ k > tie THEN k - 1 ELSE k

EarlierTurn ==
    [Idle EXCEPT !.pc = "done",
                 !.request = [message |-> "hi", user_id |-> "u1",
                              conversation_id |-> NONE],
                 !.conv_id = "c1", !.created = TRUE,
                 !.response = [status |-> 200]]

InitHistory ==
    /\ tasks = [i \in {} |-> NONE]
    /\ nextTaskId = 1
    /\ opCount = 0
    /\ pre = [i \in {} |-> NONE]
    /\ call = NoCall
    /\ result = NoResult
    /\ convs = [c \in {"c1"} |-> Conversation("u1", "New Chat", 0)]
    /\ nextConvId = 2
    /\ \E n \in 0..MaxHistory, tie \in 0..MaxHistory :
          /\ tie < n \/ tie = 0
          /\ msgs = [k \in 1..n |->
                        ChatMessage("c1", IF k % 2 = 1 THEN "user" ELSE "assistant",
                                    "m" \o ToString(k), Stamp(k, tie))]
          /\ now \in {Stamp(n, tie), Stamp(n, tie) + 1}
    /\ persisted = <<>>
    /\ fkEnforced = FALSE
    /\ turn = [t \in Turns |-> IF t = "r1" THEN EarlierTurn ELSE Idle]

NextHistory ==
    \/ \E t \in Turns : ChatReceive(t)
    \/ \E t \in Turns : SaveUser(t)
    \/ \E t \in Turns : CallModel(t)
    \/ \E t \in Turns : Dispatch(t)
    \/ \E t \in Turns : FinalCall(t)
    \/ \E t \in Turns : SaveAssistant(t)

SpecHistory == InitHistory /\ [][NextHistory]_vars

\* ================================================================ claims
\* The tasks of user_id (a well-formed text) in the table T, and those among
\* them titled title.
Mine(T, user_id) == {i \in DOMAIN T : T[i].user_id = Canon(user_id)}
Titled(T, user_id, title) == {i \in Mine(T, user_id) : T[i].title = title}

\* T2 is T without the rows ids, every other row as it was.
Without(T, T2, ids) ==
    /\ DOMAIN T2 = DOMAIN T \ ids
    /\ \A i \in DOMAIN T2 : T2[i] = T[i]

\* The rows turn t has committed with the role given.
Rows_of(t, role) ==
    {k \in 1..Len(persisted) : persisted[k].by = t /\ persisted[k].role = role}

\* The turn has passed validation.
Validated(t) == turn[t].pc \notin {"idle", "rejected"}

\* The store refused a message of the turn: its conversation was deleted
\* meanwhile and the foreign key is enforced.
StoreRefused(t) == fkEnforced /\ turn[t].conv_id \notin DOMAIN convs

FallbackPrefix == ErrorReply("")

IsFallback(text) ==
    /\ Len(text) >= Len(FallbackPrefix)
    /\ SubSeq(text, 1, Len(FallbackPrefix)) = FallbackPrefix

\* C1: a turn that passed validation and returned has persisted exactly one
\* user message and exactly one assistant message, both in its conversation,
\* whatever the model did (answered, asked for tools, failed at the first or
\* the second call); before it returns it has persisted its user message
\* once as soon as step C is over; no message of role tool is ever
\* persisted; a turn ends without its assistant message only when the store
\* refuses the row, and a rejected turn persists nothing.
C1_OneUserOneAssistant ==
    /\ \A k \in 1..Len(persisted) : persisted[k].role \in {"user", "assistant"}
    /\ \A t \in Turns :
        LET f == turn[t]
            U == Rows_of(t, "user")
            A == Rows_of(t, "assistant")
        IN /\ f.pc \in {"idle", "rejected", "saveUser"} => U = {} /\ A = {}
           /\ f.pc \in {"context", "tools", "saveAssistant"} =>
                Cardinality(U) = 1 /\ A = {}
           /\ f.pc = "done" => Cardinality(U) = 1 /\ Cardinality(A) = 1
           /\ f.pc = "failed" => StoreRefused(t) /\ Cardinality(U) <= 1 /\ A = {}
           /\ \A k \in U \cup A : persisted[k].conversation_id = f.conv_id
           /\ \A k \in U : persisted[k].content = f.request.message
           /\ \A j \in U, k \in A : j < k

\* One turn has returned after the second call of the model failed, the
\* other after the first call failed.
C1_Witness ==
    /\ turn["r1"].pc = "done" /\ turn["r1"].failure = "second"
    /\ turn["r2"].pc = "done" /\ turn["r2"].failure = "first"
    /\ Len(persisted) = 4

\* C2: every tool call of a chat turn is executed with user_id equal to the
\* request's user_id, whatever user_id the model's arguments carried; the
\* call leaves every task of another owner as it was, creates tasks for the
\* requester only, and lists tasks of the requester only.
C2_OwnerInjected ==
    call.by \in Turns =>
        LET user_id == turn[call.by].request.user_id
            others == DOMAIN pre \ Mine(pre, user_id)
        IN /\ call.args.user_id = user_id
           /\ \A i \in others : i \in DOMAIN tasks /\ tasks[i] = pre[i]
           /\ \A i \in DOMAIN tasks \ DOMAIN pre : tasks[i].user_id = Canon(user_id)
           /\ (call.name = "list_tasks" /\ result.status = "success") =>
                \A k \in 1..Len(result.tasks) :
                    result.tasks[k].id \in Mine(pre, user_id)
           /\ (call.name = "delete_task" /\ "requires_clarification" \in DOMAIN result) =>
                \A k \in 1..Len(result.message.list) :
                    result.message.list[k].id \in Mine(pre, user_id)

\* The model asked to delete all tasks of a user who is not the requester,
\* while that user had a task.
C2_Witness ==
    /\ call.by \in Turns
    /\ call.name = "delete_all_tasks"
    /\ "user_id" \in DOMAIN call.emitted
    /\ call.emitted.user_id # turn[call.by].request.user_id
    /\ Mine(pre, call.emitted.user_id) # {}
    /\ result.status = "success"

\* C3: a turn whose conversation_id does not resolve to a conversation of
\* the requester (malformed, unknown, or another user's) runs in a new
\* conversation owned by the requester; no turn commits a message to a
\* conversation that another user owns.
C3_OwnConversationOnly ==
    /\ \A t \in Turns :
        Validated(t) =>
            LET f == turn[t] IN
            /\ f.conv_id \in DOMAIN convs =>
                  convs[f.conv_id].user_id = Canon(f.request.user_id)
            /\ f.conv_id # f.request.conversation_id => f.created
    /\ \A k \in 1..Len(persisted) :
        persisted[k].owner \in {NONE, Canon(turn[persisted[k].by].request.user_id)}

\* C4: a failure of the model (the first call, the second call, or parsing
\* and dispatching a tool call) does not abort the turn: the turn goes on to
\* persist the fallback text as its assistant message and returns it with
\* status 200 and tool_calls_executed = false; it ends otherwise only when
\* the store refuses the row.
C4_FailSoft ==
    \A t \in Turns :
        LET f == turn[t] IN
        f.failure # "none" =>
            /\ f.pc \in {"saveAssistant", "done", "failed"}
            /\ f.pc = "failed" => StoreRefused(t)
            /\ f.pc = "saveAssistant" =>
                  IsFallback(f.final_resp) /\ ~f.tool_calls_executed
            /\ f.pc = "done" =>
                  /\ f.response.status = 200
                  /\ IsFallback(f.response.response)
                  /\ f.response.tool_calls_executed = FALSE
                  /\ \A k \in Rows_of(t, "assistant") :
                        persisted[k].content = f.response.response

\* A turn has returned the fallback after a tool call failed to parse, a
\* tool call before it having added a task.
C4_Witness ==
    \E t \in Turns :
        /\ turn[t].pc = "done"
        /\ turn[t].failure = "dispatch"
        /\ turn[t].response.status = 200
        /\ call.by = t /\ call.name = "add_task"
        /\ tasks # pre

ByIdCall == call.name = "delete_task" /\ Truthy(Arg(call.args, "task_id"))

ByTitleCall ==
    /\ call.name = "delete_task"
    /\ ~Truthy(Arg(call.args, "task_id"))
    /\ Truthy(Arg(call.args, "task_title"))

\* C5: delete_task with a task_id deletes exactly that task, and only when
\* it exists and belongs to the caller; for a malformed, absent or foreign id
\* it returns an error and leaves the table as it was; a task_title given
\* with the id plays no part.
C5_DeleteById ==
    ByIdCall =>
        LET id == call.args.task_id
            u == call.args.user_id
            own == WellFormed(id) /\ Canon(id) \in Mine(pre, u)
        IN /\ result.status \in {"success", "error"}
           /\ result.status = "success" => own /\ Without(pre, tasks, {Canon(id)})
           /\ result.status = "error" => tasks = pre
           /\ ~own => result.status = "error"
           /\ (own /\ u = Canon(u)) => result.status = "success"

\* A delete by id that succeeded although a title was given too, and a task
\* with that title is still there.
C5_Witness ==
    /\ ByIdCall
    /\ Truthy(Arg(call.args, "task_title"))
    /\ result.status = "success"
    /\ Titled(tasks, call.args.user_id, call.args.task_title) # {}

\* C6: delete_task by title deletes nothing when two or more tasks of the
\* owner have the title and returns an error with requires_clarification and
\* a list of every match once, numbered from 1, in ascending creation time;
\* it deletes the task when exactly one matches, and returns an error and
\* changes nothing when none does.
C6_DeleteByTitle ==
    ByTitleCall =>
        LET M == Titled(pre, call.args.user_id, call.args.task_title)
            n == Cardinality(M)
        IN /\ n = 0 => result.status = "error" /\ tasks = pre
           /\ n = 1 => result.status = "success" /\ Without(pre, tasks, M)
           /\ n >= 2 =>
                /\ tasks = pre
                /\ result.status = "error"
                /\ "requires_clarification" \in DOMAIN result
                /\ result.requires_clarification = TRUE
                /\ LET list == result.message.list
                   IN /\ Len(list) = n
                      /\ {list[k].id : k \in 1..n} = M
                      /\ \A k \in 1..n :
                            /\ list[k].i = k
                            /\ list[k].created = pre[list[k].id].created_at
                      /\ \A j, k \in 1..n :
                            j < k => list[j].created <= list[k].created

\* A delete by title that found two tasks created at different times and
\* listed the older one first.
C6_Witness ==
    /\ ByTitleCall
    /\ "requires_clarification" \in DOMAIN result
    /\ Len(result.message.list) >= 2
    /\ result.message.list[1].created < result.message.list[2].created

\* C7: update_task by a title that more than one task of the owner has
\* changes no field of any task and returns an error naming their number.
C7_UpdateAmbiguous ==
    (call.name = "update_task"
        /\ Cardinality(Titled(pre, call.args.user_id, call.args.current_title)) > 1)
    => /\ tasks = pre
       /\ result.status = "error"
       /\ result.message.tag = "found_n"
       /\ result.message.n =
            Cardinality(Titled(pre, call.args.user_id, call.args.current_title))

\* An update with a patch, by a title two tasks have, made after they were
\* created.
C7_Witness ==
    /\ call.name = "update_task"
    /\ Cardinality(Titled(pre, call.args.user_id, call.args.current_title)) = 2
    /\ "status" \in DOMAIN call.args
    /\ \A i \in DOMAIN pre : pre[i].updated_at < call.at

\* C8: every tool operation that changes tasks refreshes their updated_at:
\* after complete_all_tasks and mark_all_tasks_incomplete every task of the
\* owner has the new status and the time of the call as updated_at, and so
\* has the task a successful update_task changed.
C8_UpdatedAtRefreshed ==
    /\ (call.name \in {"complete_all_tasks", "mark_all_tasks_incomplete"}
            /\ result.status = "success")
       => \A i \in Mine(tasks, call.args.user_id) :
             /\ tasks[i].status = IF call.name = "complete_all_tasks"
                                  THEN "completed" ELSE "pending"
             /\ tasks[i].updated_at = call.at
    /\ (call.name = "update_task" /\ result.status = "success")
       => \A i \in DOMAIN tasks : tasks[i] # pre[i] => tasks[i].updated_at = call.at

\* C9: the three bulk tools act on all and only the caller's tasks, whatever
\* their status was, archived included; every other task is as it was.
C9_BulkScope ==
    call.name \in BulkNames =>
        LET mine == Mine(pre, call.args.user_id)
        IN /\ result.status = "success"
           /\ \A i \in DOMAIN pre \ mine : i \in DOMAIN tasks /\ tasks[i] = pre[i]
           /\ DOMAIN tasks \subseteq DOMAIN pre
           /\ call.name = "delete_all_tasks" => DOMAIN tasks = DOMAIN pre \ mine
           /\ call.name # "delete_all_tasks" =>
                /\ DOMAIN tasks = DOMAIN pre
                /\ \A i \in mine :
                      /\ tasks[i].status = IF call.name = "complete_all_tasks"
                                           THEN "completed" ELSE "pending"
                      /\ [tasks[i] EXCEPT !.status = pre[i].status] = pre[i]

\* A bulk status change by an owner with an archived task, while another
\* owner has a task.
C9_Witness ==
    /\ call.name \in {"complete_all_tasks", "mark_all_tasks_incomplete"}
    /\ \E i \in Mine(pre, call.args.user_id) : pre[i].status = "archived"
    /\ DOMAIN pre \ Mine(pre, call.args.user_id) # {}

\* The requests for one task by its id.
ByIdRequest ==
    call.name \in {"GET /tasks/{task_id}", "PUT /tasks/{task_id}",
                   "DELETE /tasks/{task_id}"}

\* C12: GET, PUT and DELETE /tasks/{id} answer 404 for an id no task has and
\* 403 for the id of another user's task, and leave the table as it was; no
\* request changes or removes a task its user does not own, and a task that
\* is returned is the requester's.
C12_HttpOwnership ==
    ByIdRequest =>
        LET id == call.args.task_id
            u == call.args.current_user
            exists == WellFormed(id) /\ Canon(id) \in DOMAIN pre
        IN /\ (WellFormed(id) /\ ~exists) => result.status = 404 /\ tasks = pre
           /\ (exists /\ pre[Canon(id)].user_id # u) =>
                 result.status = 403 /\ tasks = pre
           /\ \A i \in DOMAIN pre :
                 pre[i].user_id # u => i \in DOMAIN tasks /\ tasks[i] = pre[i]
           /\ "task" \in DOMAIN result => result.task.user_id = u
           /\ result.status = 200 => exists /\ pre[Canon(id)].user_id = u

\* A PUT with a new title has been refused with 403 for a task of another
\* user, which is still there.
C12_Witness ==
    /\ call.name = "PUT /tasks/{task_id}"
    /\ "title" \in DOMAIN call.args.body
    /\ result.status = 403
    /\ call.args.task_id \in DOMAIN tasks

\* C13: no step changes the owner of a task that exists before and after
\* it, whether an HTTP request or a tool call.
C13_OwnerImmutable ==
    [][\A i \in DOMAIN tasks \cap DOMAIN tasks' :
          tasks'[i].user_id = tasks[i].user_id]_vars

\* A PUT whose body names another user as user_id has changed the task.
C13_Witness ==
    /\ call.name = "PUT /tasks/{task_id}"
    /\ "user_id" \in DOMAIN call.args.body
    /\ call.args.body.user_id # call.args.current_user
    /\ result.status = 200
    /\ tasks # pre

\* C14: DELETE /conversations/{id} by the conversation's owner answers 200
\* and removes the conversation and every message of it, so that no stored
\* message refers to it afterwards, and leaves every other conversation and
\* message as it was; a request by another user or for an unknown id answers
\* 404, and every request that is not the owner's deletes nothing.
C14_DeleteCascades ==
    [][(opCount' # opCount
            /\ call'.name = "DELETE /conversations/{conversation_id}") =>
        LET c == call'.args.conversation_id
            u == call'.args.user_id
            known == WellFormed(c) /\ Canon(c) \in DOMAIN convs
            owner == known /\ WellFormed(u) /\ convs[Canon(c)].user_id = Canon(u)
        IN /\ owner =>
                /\ result'.status = 200
                /\ convs' = Delete(convs, {Canon(c)})
                /\ \A k \in 1..Len(msgs') : msgs'[k].conversation_id # Canon(c)
                /\ msgs' = SelectSeq(msgs, LAMBDA m : m.conversation_id # Canon(c))
           /\ ~owner => convs' = convs /\ msgs' = msgs
           /\ (~owner /\ WellFormed(c) /\ WellFormed(u)) => result'.status = 404
      ]_vars

\* The tool calls the model emitted in turn t, and the tool-result entries
\* of the transcript so far.
EmittedIn(f) == f.messages[f.invocations[1].n + 1].tool_calls
ToolEntries(f) ==
    SubSeq(f.messages, f.invocations[1].n + 2, Len(f.messages))

\* The transcript of a turn in its tool loop: one tool-result entry for each
\* call executed, in the order emitted, the calls not yet executed being the
\* rest of the list.
InEmittedOrder(f) ==
    f.pc = "tools" =>
        LET E == EmittedIn(f)
            R == ToolEntries(f)
        IN /\ Len(R) <= Len(E)
           /\ f.todo = SubSeq(E, Len(R) + 1, Len(E))
           /\ \A j \in 1..Len(R) :
                 R[j].role = "tool" /\ R[j].tool_call_id = E[j].id

\* C15: in a turn the tool calls run in the order the model emitted them,
\* each adding one tool-result entry to the transcript in that order; a call
\* that fails (unparsable arguments, an exception) ends the loop and leaves
\* the store as the calls before it left it, and nothing but a tool call
\* that returns changes the tasks.
C15_ToolCallOrder ==
    [][/\ \A t \in Turns :
            LET f == turn[t]
                g == turn'[t]
            IN /\ InEmittedOrder(g)
               /\ (f.pc = "tools" /\ f.todo # <<>> /\ g # f) =>
                    \/ /\ g.failure = "none"
                       /\ g.todo = Tail(f.todo)
                       /\ call'.by = t
                       /\ call'.name = Head(f.todo).name
                       /\ call'.emitted = Head(f.todo).arguments.value
                       /\ g.messages = Append(f.messages,
                                              [role |-> "tool",
                                               tool_call_id |-> Head(f.todo).id,
                                               content |-> result'])
                    \/ /\ g.failure = "dispatch"
                       /\ tasks' = tasks
       /\ tasks' # tasks =>
            \E t \in Turns : /\ turn[t].pc = "tools" /\ turn'[t].pc = "tools"
                             /\ Len(turn'[t].messages) = Len(turn[t].messages) + 1
      ]_vars

\* A turn has executed two tool calls, the first of which deleted a task,
\* and has both results in its transcript.
C15_Witness ==
    \E t \in Turns :
        /\ turn[t].pc = "tools"
        /\ turn[t].todo = <<>>
        /\ Len(ToolEntries(turn[t])) = 2
        /\ ToolEntries(turn[t])[1].content.status = "success"
        /\ EmittedIn(turn[t])[1].name = "delete_task"

\* C16: whenever a turn invokes the model, its user message has been
\* committed already and its assistant message has not; the assistant
\* message is committed by a step that invokes nothing, after at least one
\* invocation, and ends the turn; so a turn whose model call failed has its
\* user message committed.
C16_WriteBeforeCall ==
    [][\A t \in Turns :
          LET f == turn[t]
              g == turn'[t]
          IN /\ Len(g.invocations) > Len(f.invocations) =>
                  /\ Cardinality(Rows_of(t, "user")) = 1
                  /\ Rows_of(t, "assistant")' = {}
             /\ Rows_of(t, "assistant")' # Rows_of(t, "assistant") =>
                  /\ g.invocations = f.invocations
                  /\ Len(f.invocations) >= 1
                  /\ g.pc = "done"
             /\ f.pc = "done" => g = f
             /\ g.failure # "none" => Cardinality(Rows_of(t, "user")') = 1
      ]_vars

\* The first call of the model has failed in a turn that has not yet saved
\* its reply, and the turn's user message is in the table.
C16_Witness ==
    \E t \in Turns :
        /\ turn[t].failure = "first"
        /\ turn[t].pc = "saveAssistant"
        /\ \E k \in 1..Len(msgs) :
              /\ msgs[k].conversation_id = turn[t].conv_id
              /\ msgs[k].role = "user"
              /\ msgs[k].content = turn[t].request.message

StoredIn(f) == {k \in 1..Len(msgs) : msgs[k].conversation_id = f.conv_id}
HistoryPassed(f) == SubSeq(f.messages, 2, f.invocations[1].n)

\* The row an entry of the history was read from (0: no row).
Matches(f, e) ==
    {k \in StoredIn(f) : msgs[k].role = e.role /\ msgs[k].content = e.content}
RowOf(f, e) == IF Matches(f, e) = {} THEN 0 ELSE CHOOSE k \in Matches(f, e) : TRUE

\* C18: the context a turn calls the model with is the system instruction
\* followed by min(10, n) messages of the turn's conversation, n being the
\* number stored; they are distinct rows, no stored row left out is later
\* than one passed, and they are in the order of their timestamps, oldest
\* first.
C18_HistoryWindow ==
    \A t \in Turns :
        LET f == turn[t] IN
        f.pc \in {"tools", "saveAssistant"} =>
            LET H == HistoryPassed(f)
                row(j) == RowOf(f, H[j])
                passed == {row(j) : j \in 1..Len(H)}
            IN /\ f.messages[1].role = "system"
               /\ Len(H) = Min(Cardinality(StoredIn(f)), HistoryLimit)
               /\ Len(H) <= 10
               /\ 0 \notin passed
               /\ Cardinality(passed) = Len(H)
               /\ \A i, j \in 1..Len(H) :
                     i < j => msgs[row(i)].timestamp <= msgs[row(j)].timestamp
               /\ \A k \in StoredIn(f) \ passed, j \in 1..Len(H) :
                     msgs[k].timestamp <= msgs[row(j)].timestamp

\* A turn has called the model in a conversation of more than ten messages:
\* the history begins with the tenth message from the end and ends with the
\* turn's own.
C18_Witness ==
    \E t \in Turns :
        /\ turn[t].pc = "saveAssistant"
        /\ Cardinality(StoredIn(turn[t])) = MaxHistory + 1
        /\ Len(HistoryPassed(turn[t])) = 10
        /\ HistoryPassed(turn[t])[1].content = "m" \o ToString(MaxHistory - 8)
        /\ HistoryPassed(turn[t])[10].content = "hi"

\* The calendar date a year-month-day text names, months and days with or
\* without their zero padding; NONE for any other text.
CalendarDate(text) ==
    CASE text \in {"2025-03-10", "2025-3-10"} -> "2025-03-10"
      [] text \in {"2025-12-01", "2025-12-1"} -> "2025-12-01"
      [] OTHER -> NONE

\* The calendar date of a stored due date.
DayOf(d) ==
    CASE d = "datetime(2025, 3, 10, 0, 0)" -> "2025-03-10"
      [] d = "datetime(2025, 12, 1, 0, 0)" -> "2025-12-01"
      [] OTHER -> NONE

\* The call carries a due_date argument, and an owner.
WithDueDate == "due_date" \in DOMAIN call.args /\ Truthy(call.args.user_id)

\* The task the add_task call has created.
Added == CHOOSE i \in DOMAIN tasks \ DOMAIN pre : TRUE

\* The one task of the caller with the title the update_task call names.
Updated == CHOOSE i \in Titled(pre, call.args.user_id, call.args.current_title) : TRUE

\* The other fields of the patch of the update_task call are in the task.
OthersApplied(row) ==
    /\ \A k \in (DOMAIN call.args) \cap {"description", "priority", "status", "tags"} :
          Truthy(call.args[k]) => row[k] = call.args[k]
    /\ ("new_title" \in DOMAIN call.args /\ Truthy(call.args.new_title))
          => row.title = call.args.new_title

\* C19: a due_date argument that names no year-month-day date never fails
\* the tool call: add_task creates the task with status success and no due
\* date, update_task applies every other field of the patch and leaves the
\* due date as it was. A due_date that names a date is stored, and
\* list_tasks reads every stored due date back as the same calendar date.
C19_DueDate ==
    /\ (call.name = "add_task" /\ WithDueDate)
        => /\ result.status = "success"
           /\ DOMAIN tasks \ DOMAIN pre = {result.task.id}
           /\ IF CalendarDate(call.args.due_date) = NONE
              THEN tasks[Added].due_date = NONE
              ELSE DayOf(tasks[Added].due_date) = CalendarDate(call.args.due_date)
    /\ (call.name = "update_task" /\ WithDueDate
            /\ Cardinality(Titled(pre, call.args.user_id, call.args.current_title)) = 1)
        => /\ result.status = "success"
           /\ OthersApplied(tasks[Updated])
           /\ IF CalendarDate(call.args.due_date) = NONE
              THEN tasks[Updated].due_date = pre[Updated].due_date
              ELSE DayOf(tasks[Updated].due_date) = CalendarDate(call.args.due_date)
    /\ (call.name = "list_tasks" /\ result.status = "success")
        => \A k \in DOMAIN result.tasks :
              LET e == result.tasks[k] IN
              IF pre[e.id].due_date = NONE
              THEN e.due_date = NONE
              ELSE /\ e.due_date # NONE
                   /\ SubSeq(e.due_date, 1, 10) = DayOf(pre[e.id].due_date)

\* An update whose due_date names no date and whose status is new, of a
\* task that has a due date.
C19_Witness ==
    /\ call.name = "update_task"
    /\ WithDueDate
    /\ CalendarDate(call.args.due_date) = NONE
    /\ Cardinality(Titled(pre, call.args.user_id, call.args.current_title)) = 1
    /\ pre[Updated].due_date # NONE
    /\ pre[Updated].status # call.args.status
    /\ result.status = "success"

\* The rows of M whose conversation is not in gone, in the order of M.
Kept(M, gone) == SelectSeq(M, LAMBDA m : m.conversation_id \notin gone)

\* A step keeps every stored message, or every message but those of the
\* conversations it deletes, as it is and in its place before the new ones.
MessagesKept ==
    LET kept == Kept(msgs, DOMAIN convs \ DOMAIN convs') IN
    /\ Len(msgs') >= Len(kept)
    /\ SubSeq(msgs', 1, Len(kept)) = kept

\* C20: stored messages are append-only: no operation changes the role,
\* content, conversation reference or timestamp of a stored message, a
\* message leaves the store only when its whole conversation is deleted,
\* and the earlier messages keep their content and relative order.
C20_AppendOnly == [][MessagesKept]_vars

\* A conversation was deleted with its messages while the messages another
\* conversation had before are still stored.
C20_Witness ==
    /\ \E k \in DOMAIN persisted : persisted[k].conversation_id \notin DOMAIN convs
    /\ \A k \in DOMAIN msgs : msgs[k].conversation_id \in DOMAIN convs
    /\ Len(msgs) >= 2

\* The messages ever committed to conversation c, in the order of their
\* commits, and the turns that wrote them.
ConvLog(c) == SelectSeq(persisted, LAMBDA p : p.conversation_id = c)

\* No message of the turn's conversation has been deleted.
Undeleted(f) == Len(ConvLog(f.conv_id)) = Cardinality(StoredIn(f))

\* C21: the turns of one conversation are not serialized: the history a
\* turn sends to the model is the messages committed to its conversation
\* when it reads them, its own user message among them, and every user
\* message another turn has committed by then, whether or not that turn's
\* reply is stored; so the stored order can be user message of turn A, user
\* message of turn B, and then the two replies.
C21_Interleaving ==
    \A t \in Turns :
        LET f == turn[t] IN
        (f.pc \in {"tools", "saveAssistant"} /\ Undeleted(f)) =>
            LET H == HistoryPassed(f)
                L == ConvLog(f.conv_id)
            IN /\ Len(H) <= Len(L)
               /\ \A j \in 1..Len(H) : H[j] = [role |-> L[j].role, content |-> L[j].content]
               /\ \E j \in 1..Len(H) : L[j].by = t /\ L[j].role = "user"

\* The conversation holds the user message of the first turn, the user
\* message of the second, the reply of the first and the reply of the
\* second, in this order, and the second turn has called the model with the
\* two user messages and no reply.
C21_Witness ==
    LET L == ConvLog("c1") IN
    /\ [k \in 1..Len(L) |-> <<L[k].by, L[k].role>>] =
          <<<<"r1", "user">>, <<"r2", "user">>, <<"r1", "assistant">>, <<"r2", "assistant">>>>
    /\ Len(msgs) = 4
    /\ \A k \in 1..4 : msgs[k].conversation_id = "c1" /\ msgs[k].role = L[k].role
    /\ turn["r2"].invocations[1].n = 3

\* C22: the tool_calls_executed flag of a response is true if and only if
\* a tool call of the turn was dispatched: the flag a turn is about to
\* return is true exactly when its transcript holds a tool result, and a
\* turn that has returned after the last tool call made has returned true.
C22_ExecutedFlag ==
    \A t \in Turns :
        LET f == turn[t] IN
        /\ f.pc = "saveAssistant" =>
              (f.tool_calls_executed <=> ToolEntries(f) # <<>>)
        /\ (f.pc = "done" /\ call.by = t) => f.response.tool_calls_executed

\* C23: the text a turn returns is the content of the assistant message it
\* has persisted, and is not empty.
C23_ResponseIsPersisted ==
    \A t \in Turns :
        LET f == turn[t] IN
        f.pc = "done" =>
            /\ Truthy(f.response.response)
            /\ \A k \in Rows_of(t, "assistant") :
                  persisted[k].content = f.response.response

\* The request names a conversation that exists.
Existing(conversation_id) ==
    /\ conversation_id \notin {NONE, ""}
    /\ WellFormed(conversation_id)
    /\ Canon(conversation_id) \in DOMAIN convs

\* The title of a conversation opened by the message.
TitleFor(message) ==
    IF message = "" THEN "New Chat"
    ELSE IF Len(message) > TitleLimit
    THEN SubSeq(message, 1, TitleLimit) \o "..."
    ELSE message

\* The turn arrives in this step.
Arrives(t) == turn[t].pc = "idle" /\ turn'[t].pc # "idle"

\* What the step of a turn does to the conversations.
TurnKeepsConversation(t) ==
    LET f == turn[t]
        g == turn'[t]
        rq == g.request
    IN /\ Arrives(t) =>
            IF g.pc = "rejected" THEN convs' = convs
            ELSE IF Existing(rq.conversation_id)
            THEN /\ convs' = convs
                 /\ ~g.created
                 /\ g.conv_id = Canon(rq.conversation_id)
            ELSE /\ g.created
                 /\ g.conv_id \notin DOMAIN convs
                 /\ DOMAIN convs' = DOMAIN convs \cup {g.conv_id}
                 /\ convs'[g.conv_id].user_id = Canon(rq.user_id)
                 /\ convs'[g.conv_id].title = TitleFor(rq.message)
       /\ f.pc # "idle" =>
            /\ g.conv_id = f.conv_id
            /\ g.request = f.request
            /\ g.created = f.created
       /\ g.pc = "done" =>
            /\ g.response.conversation_id = g.conv_id
            /\ Cardinality(Rows_of(t, "user")') = 1
            /\ Cardinality(Rows_of(t, "assistant")') = 1
            /\ \A k \in Rows_of(t, "user")' \cup Rows_of(t, "assistant")' :
                  persisted'[k].conversation_id = g.conv_id

\* C24: a chat request naming a conversation that exists creates none: the
\* turn runs in that conversation, its two messages are appended to it, the
\* response carries its id, and no step changes the title or the owner of a
\* conversation; any other accepted request creates exactly one
\* conversation, owned by the requester and titled with the message, cut
\* to 30 characters and an ellipsis when it is longer; nothing else
\* creates a conversation.
C24_ConversationReuse ==
    [][/\ \A t \in Turns : TurnKeepsConversation(t)
       /\ \A c \in DOMAIN convs \cap DOMAIN convs' : convs'[c] = convs[c]
       /\ (\A t \in Turns : ~Arrives(t)) => DOMAIN convs' \subseteq DOMAIN convs
      ]_vars

\* The first turn has opened a conversation with a long message, and the
\* second, naming it in upper case, has ended in it: no other conversation
\* was created.
C24_Witness ==
    /\ turn["r1"].created
    /\ turn["r1"].request.message = LongMessage
    /\ turn["r2"].pc = "done"
    /\ turn["r2"].request.conversation_id = "C1"
    /\ ~turn["r2"].created
    /\ turn["r2"].response.conversation_id = "c1"
    /\ DOMAIN convs = {"c1"}
    /\ nextConvId = 2
    /\ convs["c1"].title = "remind me to call the dentist ..."

\* The next tool call of the turn has a name that is no tool, and
\* arguments that are a JSON object.
AtUnknownTool(f) ==
    /\ f.pc = "tools"
    /\ f.todo # <<>>
    /\ Head(f.todo).name \notin ToolNames
    /\ Head(f.todo).arguments.json = "object"

\* The tool calls emitted in the turn up to the one that failed have known
\* names.
FailedAtKnown(f) ==
    LET j == Len(ToolEntries(f)) + 1 IN
    /\ j <= Len(EmittedIn(f))
    /\ EmittedIn(f)[j].name \in ToolNames \/ EmittedIn(f)[j].arguments.json # "object"

\* C25: a tool call whose name is none of the eight tools changes nothing
\* in the task store and puts a result with status error, under the call's
\* id, into the transcript; the turn goes on with the rest of the list in
\* order; a turn never fails at such a call, and a turn that has gone
\* through its list with no failure has invoked the model a second time.
C25_UnknownTool ==
    [][\A t \in Turns :
          LET f == turn[t]
              g == turn'[t]
          IN /\ (AtUnknownTool(f) /\ g # f) =>
                  /\ tasks' = tasks
                  /\ g.pc = "tools"
                  /\ g.failure = "none"
                  /\ g.tool_calls_executed
                  /\ g.todo = Tail(f.todo)
                  /\ Len(g.messages) = Len(f.messages) + 1
                  /\ g.messages[Len(g.messages)].role = "tool"
                  /\ g.messages[Len(g.messages)].tool_call_id = Head(f.todo).id
                  /\ g.messages[Len(g.messages)].content.status = "error"
                  /\ result'.status = "error"
             /\ (g.pc = "saveAssistant" /\ g.failure = "dispatch") => FailedAtKnown(g)
             /\ (g.pc = "saveAssistant" /\ g.failure = "none" /\ f.pc = "tools") =>
                  /\ Len(g.invocations) = 2
                  /\ Len(ToolEntries(g)) = Len(EmittedIn(g))
      ]_vars

\* A turn whose model response named an unknown tool and then
\* delete_all_tasks has run both calls, the second having deleted a task,
\* and has invoked the model a second time without a failure.
C25_Witness ==
    \E t \in Turns :
        /\ turn[t].pc = "saveAssistant"
        /\ turn[t].failure = "none"
        /\ Len(turn[t].invocations) = 2
        /\ EmittedIn(turn[t])[1].name = "drop_tasks"
        /\ ToolEntries(turn[t])[1].content.status = "error"
        /\ Len(ToolEntries(turn[t])) = 2
        /\ call.by = t /\ call.name = "delete_all_tasks"
        /\ tasks # pre

\* C11: add_task called with a missing (empty) owner fails softly: it
\* returns a result with status error, does not raise, and creates no task.
C11_AddTaskFailsSoft ==
    (call.name = "add_task" /\ ~Truthy(call.args.user_id)) =>
        /\ result.status = "error"
        /\ tasks = pre

\* C10: get_analytics reports the counts of the owner's tasks and
\* productivity_score = round(completed / total * 100), or 0 for no tasks.
C10_AnalyticsRound ==
    call.name = "get_analytics" =>
        LET mine == Mine(pre, call.args.user_id)
            total == Cardinality(mine)
            completed == Cardinality({i \in mine : pre[i].status = "completed"})
            pending == Cardinality({i \in mine : pre[i].status = "pending"})
            a == result.analytics
        IN /\ a.tasks_total = total
           /\ a.tasks_completed = completed
           /\ a.tasks_pending = pending
           /\ a.productivity_score =
                IF total > 0 THEN RoundOf(completed * 100, total) ELSE 0

====
